---- MODULE Spec2Model ----
(***************************************************************************)
(* Model of scripts/fish_data_extractor.py (FishDataExtractor): the        *)
(* extraction loop of run_extraction, the four image pipelines of          *)
(* download_free_images with their source adapters, and the placeholder    *)
(* backfill of create_missing_placeholders.                                *)
(*                                                                         *)
(* The network and the imaging library are the environment.  A response is *)
(* abstracted to the facts the code branches on: whether the request       *)
(* raised, the status code, the declared content type, whether the body    *)
(* transfer broke, and whether an item of a listing is usable.             *)
(***************************************************************************)
EXTENDS Integers, Sequences, FiniteSets, TLC

\* ------------------------------------------------------------------ bounds
\* Number of candidate items one adapter response may list.
MaxCandidates == 2

\* Characters beyond the description limit that a source text can have.
MaxExtra == 1

\* Longest arbitrary name given to generate_fish_id.
MaxNameLen == 3

\* Image files in the folders resize_all_images goes through.
MaxImages == 3

\* Records in a list given to generate_json_dataset on its own.
MaxRecords == 3

\* Largest index given to get_filename on its own.
MaxIndex == 2

\* ------------------------------------------------------- program constants
\* The species list: the first entries of get_top_20_fish_species, by their
\* position in that list.
SpeciesList == <<1, 2>>

Cats == <<"natural", "scientific", "maps", "sushi">>
CatSet == {"natural", "scientific", "maps", "sushi"}

\* target_count of each download_* pipeline (lines 332, 358, 384, 410).
target_count ==
  [natural |-> 2, scientific |-> 1, maps |-> 1, sushi |-> 2]

\* targets of create_missing_placeholders (line 841).
targets ==
  [natural |-> 2, scientific |-> 1, maps |-> 1, sushi |-> 2]

\* The priority list `sources` of each pipeline.
sources ==
  [natural    |-> <<"download_wikimedia_images", "download_fishbase_images",
                    "download_gbif_images", "download_inaturalist_images">>,
   scientific |-> <<"download_fishbase_diagrams", "download_wikimedia_images",
                    "download_wikimedia_images", "download_fao_diagrams">>,
   maps       |-> <<"download_fishbase_maps", "download_gbif_maps",
                    "download_aquamaps_data", "download_wikimedia_images">>,
   sushi      |-> <<"download_wikimedia_sushi_images",
                    "download_unsplash_sushi_images",
                    "download_pexels_sushi_images">>]

\* `target_count = 2 if image_type == 'natural' else 1` inside the adapters.
adapter_target(image_type) == IF image_type = "natural" THEN 2 ELSE 1

\* --------------------------------------------------------------- filesystem
NoFile == "none"

\* get_filename: the index only matters for natural (index + 1) and sushi
\* (nigiri for 0, sashimi otherwise).
\* A variant that leaves the index out of the name.
get_filename_flat(image_type, index) ==
  IF image_type = "natural" THEN <<"natural", 1>>
  ELSE IF image_type = "scientific" THEN <<"diagram">>
  ELSE IF image_type = "maps" THEN <<"habitat">>
  ELSE IF image_type = "sushi" THEN <<"nigiri">>
  ELSE <<image_type, 1>>

get_filename(image_type, index) ==
  IF image_type = "natural" THEN <<"natural", index + 1>>
  ELSE IF image_type = "scientific" THEN <<"diagram">>
  ELSE IF image_type = "maps" THEN <<"habitat">>
  ELSE IF image_type = "sushi"
       THEN IF index = 0 THEN <<"nigiri">> ELSE <<"sashimi">>
  ELSE <<image_type, index + 1>>

get_image_folder(image_type) ==
  IF image_type \in CatSet THEN image_type ELSE "natural"

\* images_dir / folder / filename, for the fish with the given id.
FilePath(fish, image_type, index) ==
  <<get_image_folder(image_type), fish, get_filename(image_type, index)>>

Read(f, p) == IF p \in DOMAIN f THEN f[p] ELSE NoFile
Write(f, p, c) == IF c = NoFile THEN f ELSE (p :> c) @@ f

\* ------------------------------------------------------------- environment
\* One response to the GET of an image URL.
Resp == {"ok", "net_error", "http_error", "not_image", "broken"}

RequestRaises(r) == r = "net_error"            \* session.get raises
StatusCode(r) == IF r = "http_error" THEN 404 ELSE 200
IsImageType(r) == r # "not_image"              \* 'image' in content-type
TransferRaises(r) == r = "broken"              \* iter_content raises

\* One item of a listing: a URL with the response its download gets, or an
\* item of the wrong shape ("bad").  Of the responses that make
\* download_image_from_url return False, listings carry "http_error"; an item
\* without a usable URL has the same effect on an adapter loop as one whose
\* download fails that way.  Every response of Resp is applied to
\* download_image_from_url itself under SpecDownload.
ItemResp == {"ok", "http_error"}
Items == ItemResp \cup {"bad"}

\* What went wrong with the listing request itself.  "unguarded" is an
\* exception raised outside the adapter's own try block.
Faults == {"none", "network", "status", "malformed", "unguarded"}
ListedFaults == {"network", "status", "malformed"}

RECURSIVE SeqsUpTo(_, _)
SeqsUpTo(S, n) ==
  IF n = 0 THEN {<<>>}
  ELSE LET shorter == SeqsUpTo(S, n - 1)
       IN shorter \cup {Append(s, x) : s \in {t \in shorter : Len(t) = n - 1}, x \in S}

\* ------------------------------------------------- download_image_from_url
\* A variant without the content-type check: any 200 response is written.
download_image_from_url_unchecked(r, old) ==
  IF RequestRaises(r) THEN [ret |-> FALSE, content |-> old, opened |-> FALSE]
  ELSE IF StatusCode(r) = 200
       THEN IF TransferRaises(r)
            THEN [ret |-> FALSE, content |-> "partial", opened |-> TRUE]
            ELSE [ret |-> TRUE, content |-> "real", opened |-> TRUE]
       ELSE [ret |-> FALSE, content |-> old, opened |-> FALSE]

\* Result of one call on a path whose current content is `old`.
\* `opened` tells whether open(filepath, 'wb') was reached.
download_image_from_url(r, old) ==
  IF RequestRaises(r) THEN [ret |-> FALSE, content |-> old, opened |-> FALSE]
  ELSE IF StatusCode(r) = 200 /\ IsImageType(r)
       THEN IF TransferRaises(r)
            THEN [ret |-> FALSE, content |-> "partial", opened |-> TRUE]
            ELSE [ret |-> TRUE, content |-> "real", opened |-> TRUE]
       ELSE [ret |-> FALSE, content |-> old, opened |-> FALSE]

\* State of an adapter loop: local images_downloaded, the files, and whether
\* an exception is in flight.
LoopStart(f) == [n |-> 0, files |-> f, exc |-> FALSE]

\* filename = get_filename(fish_id, image_type, images_downloaded); download;
\* images_downloaded += 1 on success.
Attempt(st, fish, image_type, r) ==
  LET p == FilePath(fish, image_type, st.n)
      d == download_image_from_url(r, Read(st.files, p))
  IN [n |-> IF d.ret THEN st.n + 1 ELSE st.n,
      files |-> Write(st.files, p, d.content),
      exc |-> FALSE]

Min(a, b) == IF a < b THEN a ELSE b
Prefix(s, n) == SubSeq(s, 1, Min(n, Len(s)))

\* ---------------------------------------------------------- source adapters
\* An exception raised inside an adapter loop.
Raise(st) == [st EXCEPT !.exc = TRUE]

\* A variant without the handler: an exception in the body leaves the adapter.
TryExcept_uncaught(st) ==
  [raised |-> st.exc, count |-> IF st.exc THEN 0 ELSE st.n,
   files |-> st.files]

\* The adapter's outer handler, `except Exception as e: ... return 0`: an
\* exception in the body becomes a return of 0; files already written stay.
TryExcept(st) ==
  [raised |-> FALSE, count |-> IF st.exc THEN 0 ELSE st.n,
   files |-> st.files]

\* The listing request: session.get raising ("network") and response.json()
\* raising ("malformed") are exceptions; a non-200 status skips the body.
Listing(fault, f) ==
  IF fault \in {"network", "malformed"} THEN Raise(LoopStart(f))
  ELSE LoopStart(f)

\* download_wikimedia_images, lines 442-476, with the results of all queries
\* in one sequence: results are tried until images_downloaded reaches the
\* adapter's target; a result without a URL, or one whose shape makes the
\* inner handler skip to the next query, makes no download attempt.
RECURSIVE WikimediaLoop(_, _, _, _)
WikimediaLoop(st, fish, image_type, cands) ==
  IF cands = <<>> \/ st.n >= adapter_target(image_type) THEN st
  ELSE IF Head(cands) = "bad"
       THEN WikimediaLoop(st, fish, image_type, Tail(cands))
  ELSE WikimediaLoop(Attempt(st, fish, image_type, Head(cands)),
                     fish, image_type, Tail(cands))

\* A search that fails (exception or non-200) is skipped by the inner
\* handler (lines 478-480), so a failing listing yields no attempts.
download_wikimedia_images(fish, image_type, inp, f) ==
  IF inp.fault # "none" THEN TryExcept(LoopStart(f))
  ELSE TryExcept(WikimediaLoop(LoopStart(f), fish, image_type, inp.cands))

\* `for url in urls: ... download_image_from_url(url, filepath)`.
RECURSIVE UrlLoop(_, _, _, _)
UrlLoop(st, fish, image_type, urls) ==
  IF urls = <<>> THEN st
  ELSE UrlLoop(Attempt(st, fish, image_type, Head(urls)),
               fish, image_type, Tail(urls))

\* download_fishbase_images: `for url in image_urls[:target]`.
download_fishbase_images(fish, image_type, inp, f) ==
  IF inp.fault # "none" THEN TryExcept(Listing(inp.fault, f))
  ELSE TryExcept(UrlLoop(LoopStart(f), fish, image_type,
                         Prefix(inp.cands, adapter_target(image_type))))

\* `for occurrence in results[:target]` of download_gbif_images and
\* `for observation in results[:target]` of download_inaturalist_images: one
\* download attempt per record that carries a URL; a record of the wrong
\* shape raises (AttributeError) inside the adapter's try block.
RECURSIVE RecordLoop(_, _, _, _)
RecordLoop(st, fish, image_type, recs) ==
  IF recs = <<>> THEN st
  ELSE IF Head(recs) = "bad" THEN Raise(st)
  ELSE RecordLoop(Attempt(st, fish, image_type, Head(recs)),
                  fish, image_type, Tail(recs))

download_gbif_images(fish, image_type, inp, f) ==
  IF inp.fault # "none" THEN TryExcept(Listing(inp.fault, f))
  ELSE TryExcept(RecordLoop(LoopStart(f), fish, image_type,
                            Prefix(inp.cands, adapter_target(image_type))))

download_inaturalist_images(fish, image_type, inp, f) ==
  IF inp.fault # "none" THEN TryExcept(Listing(inp.fault, f))
  ELSE TryExcept(RecordLoop(LoopStart(f), fish, image_type,
                            Prefix(inp.cands, adapter_target(image_type))))

\* download_fishbase_diagrams: `for url in diagram_urls[:1]`, return 1 on a
\* successful download of <id>_diagram.jpg.
download_fishbase_diagrams(fish, inp, f) ==
  IF inp.fault # "none" THEN TryExcept(Listing(inp.fault, f))
  ELSE TryExcept(UrlLoop(LoopStart(f), fish, "scientific",
                         Prefix(inp.cands, 1)))

\* download_fao_diagrams returns 0 on every path.
download_fao_diagrams(fish, inp, f) ==
  [TryExcept(Listing(inp.fault, f)) EXCEPT !.count = 0]

\* download_fishbase_maps: `for url in map_urls[:1]`.
download_fishbase_maps(fish, inp, f) ==
  IF inp.fault # "none" THEN TryExcept(Listing(inp.fault, f))
  ELSE TryExcept(UrlLoop(LoopStart(f), fish, "maps", Prefix(inp.cands, 1)))

\* download_gbif_maps: when the species search has results, one download of
\* the density-map URL to <id>_habitat.jpg.
download_gbif_maps(fish, inp, f) ==
  IF inp.fault # "none" THEN TryExcept(Listing(inp.fault, f))
  ELSE TryExcept(UrlLoop(LoopStart(f), fish, "maps", Prefix(inp.cands, 1)))

\* download_aquamaps_data, download_unsplash_sushi_images and
\* download_pexels_sushi_images make no request and return 0.
download_aquamaps_data(fish, inp, f) == TryExcept(LoopStart(f))
download_unsplash_sushi_images(fish, inp, f) == TryExcept(LoopStart(f))
download_pexels_sushi_images(fish, inp, f) == TryExcept(LoopStart(f))

\* The kinds of item each adapter's listing can contain.
ItemKinds(name) ==
  IF name \in {"download_wikimedia_images", "download_wikimedia_sushi_images",
               "download_gbif_images", "download_inaturalist_images"}
  THEN Items
  ELSE IF name \in {"download_fishbase_images", "download_fishbase_diagrams",
                    "download_fishbase_maps", "download_gbif_maps"}
  THEN ItemResp
  ELSE {}

\* The environment's answers to one adapter invocation.
Inputs(name) ==
  [fault : {"none"}, cands : SeqsUpTo(ItemKinds(name), MaxCandidates)]
  \cup [fault : Faults \ {"none"}, cands : {<<>>}]

\* The outcomes used when two runs are compared: for an adapter that makes
\* requests, a listing whose one item downloads, or a network error; for
\* the others the answer that nothing is listed.
ReplayInputs(name) ==
  IF ItemKinds(name) = {}
  THEN {[fault |-> "none", cands |-> <<>>]}
  ELSE {[fault |-> "none", cands |-> <<"ok">>],
        [fault |-> "network", cands |-> <<>>]}

\* The call `source_func()` of a pipeline: the lambda of `sources` at this
\* position, or an exception escaping from outside the adapter's try block.
Invoke(name, fish, image_type, inp, f) ==
  IF inp.fault = "unguarded"
  THEN [raised |-> TRUE, count |-> 0, files |-> f]
  ELSE CASE name = "download_wikimedia_images" ->
              download_wikimedia_images(fish, image_type, inp, f)
         [] name = "download_fishbase_images" ->
              download_fishbase_images(fish, image_type, inp, f)
         [] name = "download_gbif_images" ->
              download_gbif_images(fish, image_type, inp, f)
         [] name = "download_inaturalist_images" ->
              download_inaturalist_images(fish, image_type, inp, f)
         [] name = "download_fishbase_diagrams" ->
              download_fishbase_diagrams(fish, inp, f)
         [] name = "download_fao_diagrams" ->
              download_fao_diagrams(fish, inp, f)
         [] name = "download_fishbase_maps" ->
              download_fishbase_maps(fish, inp, f)
         [] name = "download_gbif_maps" ->
              download_gbif_maps(fish, inp, f)
         [] name = "download_aquamaps_data" ->
              download_aquamaps_data(fish, inp, f)
         [] name = "download_unsplash_sushi_images" ->
              download_unsplash_sushi_images(fish, inp, f)
         [] name = "download_pexels_sushi_images" ->
              download_pexels_sushi_images(fish, inp, f)

\* ------------------------------------------------------ placeholder generator
\* What `from PIL import ...` and the rendering calls do in one call of the
\* generator: "ok" renders, "missing" raises ImportError, "broken" raises another
\* exception while rendering the first image, before anything is saved.
PilModes == {"ok", "missing", "broken"}

\* `for i in range(count)`: write content c at start_index + i.
RECURSIVE WriteRange(_, _, _, _, _, _)
WriteRange(f, fish, image_type, start_index, count, c) ==
  IF count <= 0 THEN f
  ELSE WriteRange(Write(f, FilePath(fish, image_type, start_index), c),
                  fish, image_type, start_index + 1, count - 1, c)

\* create_basic_type_placeholders: the minimal JPEG at each requested path.
create_basic_type_placeholders(f, fish, image_type, start_index, count) ==
  WriteRange(f, fish, image_type, start_index, count, "basic")

\* create_type_specific_placeholders: the try block renders and saves each
\* image; `except ImportError` falls back to the basic placeholders;
\* `except Exception` only prints.
create_type_specific_placeholders(f, fish, image_type, start_index, count, mode) ==
  IF mode = "ok"
  THEN WriteRange(f, fish, image_type, start_index, count, "placeholder")
  ELSE IF mode = "missing"
  THEN create_basic_type_placeholders(f, fish, image_type, start_index, count)
  ELSE f

\* The paths a call of the generator is asked to produce.
RequestedPaths(fish, image_type, start_index, count) ==
  {FilePath(fish, image_type, start_index + i) : i \in 0..(count - 1)}

\* create_missing_placeholders, one iteration of `for image_type,
\* target_count in targets.items()`: missing = target_count - downloaded.
Missing(image_type, counts) == targets[image_type] - counts[image_type]

RECURSIVE create_missing_placeholders(_, _, _, _, _)
create_missing_placeholders(f, fish, counts, mode, cats) ==
  IF cats = <<>> THEN f
  ELSE LET image_type == Head(cats)
           downloaded == counts[image_type]
           missing == Missing(image_type, counts)
           g == IF missing > 0
                THEN create_type_specific_placeholders(f, fish, image_type,
                                                       downloaded, missing, mode)
                ELSE f
       IN create_missing_placeholders(g, fish, counts, mode, Tail(cats))

\* The calls of create_type_specific_placeholders made by one run of
\* create_missing_placeholders.
PlaceholderCalls(counts) ==
  {[image_type |-> c, start_index |-> counts[c], count |-> Missing(c, counts)] :
     c \in {d \in CatSet : Missing(d, counts) > 0}}

\* -------------------------------------------------------- pipeline control
\* A variant of the loop test that stops only above the target.
LoopBreak_above(total, target) == total > target

\* `if images_downloaded >= target_count: break` at the head of the loop.
LoopBreak(total, target) == total >= target

\* A variant whose handler loses the running total.
SourceOutcome_reset(total, r) ==
  [abort |-> FALSE, total |-> IF r.raised THEN 0 ELSE total + r.count]

\* A variant without the handler: the exception leaves the pipeline and
\* run_extraction.
SourceOutcome_uncaught(total, r) ==
  [abort |-> r.raised, total |-> IF r.raised THEN total ELSE total + r.count]

\* `try: images_downloaded += source_func() ... except Exception: continue`.
SourceOutcome(total, r) ==
  [abort |-> FALSE, total |-> IF r.raised THEN total ELSE total + r.count]

\* `time.sleep(1)` follows `images_downloaded += source_func()` inside the
\* try block: it runs when the call returned, and is passed over when the
\* call raised and the handler continues with the next source.
Sleeps(r) == ~r.raised

\* A variant that goes from the natural pipeline straight to the maps one.
NextPc_skip(cat) ==
  CASE cat = "natural" -> "maps"
    [] cat = "scientific" -> "maps"
    [] cat = "maps" -> "sushi"
    [] cat = "sushi" -> "placeholders"

\* The statement after a pipeline in download_free_images.
NextPc(cat) ==
  CASE cat = "natural" -> "scientific"
    [] cat = "scientific" -> "maps"
    [] cat = "maps" -> "sushi"
    [] cat = "sushi" -> "placeholders"

\* download_wikimedia_sushi_images: position of the next search after one at
\* (sushi_type t, term q) returned `result`, with n images so far.  t = 3
\* means both loops are over.
NextSushiPos(t, q, result, n) ==
  LET t1 == IF result > 0 \/ q = 2 THEN t + 1 ELSE t
      q1 == IF result > 0 \/ q = 2 THEN 1 ELSE q + 1
  IN IF n >= 2 THEN [t |-> 3, q |-> 1] ELSE [t |-> t1, q |-> q1]

\* ------------------------------------------------------- metadata sources
\* The FishBase record of a species as extract_size and extract_weight see
\* it: no record at all, or a record in which a field is absent, null or a
\* number.
FieldStates == {"absent", "null", "number"}
Metadata ==
  {[found |-> FALSE, Length |-> "absent", Weight |-> "absent"]}
  \cup [found : {TRUE}, Length : FieldStates, Weight : FieldStates]

\* extract_fish_data raises when extract_size or extract_weight multiplies a
\* null field (`cm * 0.393701`, `kg * 2.20462`).
ExtractRaises(md) ==
  /\ md.found
  /\ (md.Length = "null" \/ md.Weight = "null")

\* ------------------------------------------------------- extract_fish_data
\* `descriptions[0][:200] + "..." if len(descriptions[0]) > 200`.
MaxDescription == 200

\* A text is a sequence of characters; a character of a source's text is the
\* pair of the source and its position, so that texts of different sources,
\* and a text and its prefixes, differ.
Text(source, n) == [i \in 1..n |-> <<source, i>>]
Ellipsis == <<<<".", 1>>, <<".", 2>>, <<".", 3>>>>

\* A field of a JSON object: absent, null, or present with a value.
Absent == [state |-> "absent", value |-> <<>>]
Null == [state |-> "null", value |-> <<>>]
Value(v) == [state |-> "value", value |-> v]

\* Lengths of the texts a metadata source can return.
TextLens == {0, 1} \cup ((MaxDescription - 1)..(MaxDescription + MaxExtra))

\* fetch_fishbase_data: None, or the first record of the response.
FishbaseData ==
  {[found |-> FALSE, Comments |-> Absent, LongevityWild |-> Absent,
    Length |-> Absent, Weight |-> Absent, FamCode |-> Absent]}
  \cup [found : {TRUE},
        Comments : {Absent, Null} \cup {Value(Text("fishbase", n)) : n \in TextLens},
        LongevityWild : {Absent, Null, Value(<<"number">>)},
        Length : {Absent, Null, Value(<<"number">>)},
        Weight : {Absent, Null, Value(<<"number">>)},
        FamCode : {Absent, Null, Value(<<"number">>)}]

\* fetch_wikipedia_data: None, or the summary object.
WikipediaData ==
  {[found |-> FALSE, extract |-> Absent]}
  \cup [found : {TRUE},
        extract : {Absent, Null} \cup {Value(Text("wikipedia", n)) : n \in TextLens}]

\* `'key' in data`: the key is there, whatever its value.
HasKey(field) == field.state # "absent"

\* fallback_descriptions of build_description, by common name.
fallback_descriptions ==
  [name \in {"Bluefin Tuna", "Atlantic Salmon", "Japanese Amberjack"} |->
     CASE name = "Bluefin Tuna" -> Text("Bluefin Tuna", 156)
       [] name = "Atlantic Salmon" -> Text("Atlantic Salmon", 131)
       [] name = "Japanese Amberjack" -> Text("Japanese Amberjack", 121)]

GenericDescription == Text("generic", 96)

\* The list `descriptions` of build_description before the last statement.
Descriptions(common_name, fishbase_data, wikipedia_data) ==
  LET d1 == IF wikipedia_data.found /\ HasKey(wikipedia_data.extract)
            THEN <<wikipedia_data.extract>> ELSE <<>>
      d2 == IF fishbase_data.found /\ HasKey(fishbase_data.Comments)
            THEN Append(d1, fishbase_data.Comments) ELSE d1
      d3 == IF d2 = <<>> /\ common_name \in DOMAIN fallback_descriptions
            THEN <<Value(fallback_descriptions[common_name])>> ELSE d2
  IN IF d3 = <<>> THEN <<Value(GenericDescription)>> ELSE d3

\* A variant of the last statement that keeps the whole text.
Truncate_none(d) == d

\* `descriptions[0][:200] + "..." if len(descriptions[0]) > 200 else
\* descriptions[0]`.
Truncate(d) ==
  IF Len(d) > MaxDescription
  THEN SubSeq(d, 1, MaxDescription) \o Ellipsis
  ELSE d

\* build_description: len(None) raises TypeError.
build_description(common_name, fishbase_data, wikipedia_data) ==
  LET first == Descriptions(common_name, fishbase_data, wikipedia_data)[1]
  IN IF first.state = "null"
     THEN [raised |-> TRUE, value |-> <<>>]
     ELSE [raised |-> FALSE, value |-> Truncate(first.value)]

\* extract_lifespan: f"{years} years", which is "None years" for a null.
extract_lifespan(fishbase_data) ==
  IF fishbase_data.found /\ HasKey(fishbase_data.LongevityWild)
  THEN [raised |-> FALSE,
        value |-> <<IF fishbase_data.LongevityWild.state = "null"
                    THEN "None" ELSE "number", " years">>]
  ELSE [raised |-> FALSE, value |-> <<"5-15 years">>]

\* extract_size: `cm * 0.393701` raises TypeError for a null.
extract_size(fishbase_data) ==
  IF fishbase_data.found /\ HasKey(fishbase_data.Length)
  THEN IF fishbase_data.Length.state = "null"
       THEN [raised |-> TRUE, value |-> <<>>]
       ELSE [raised |-> FALSE, value |-> <<"number", " in (", "number", " cm)">>]
  ELSE [raised |-> FALSE, value |-> <<"12-24 in (30-60 cm)">>]

\* extract_weight: `kg * 2.20462` raises TypeError for a null.
extract_weight(fishbase_data) ==
  IF fishbase_data.found /\ HasKey(fishbase_data.Weight)
  THEN IF fishbase_data.Weight.state = "null"
       THEN [raised |-> TRUE, value |-> <<>>]
       ELSE [raised |-> FALSE, value |-> <<"number", " lbs (", "number", " kg)">>]
  ELSE [raised |-> FALSE, value |-> <<"2-10 lbs (1-4.5 kg)">>]

\* extract_habitats: default_habitats[:2] on both branches.
extract_habitats(fishbase_data) == <<"Pacific Ocean", "Atlantic Ocean">>

\* get_image_paths: the asset paths of a category, as FilePath gives them.
get_image_paths(fish_id, image_type) ==
  IF image_type = "sushi"
  THEN <<<<"sushi", fish_id, <<"nigiri">>>>, <<"sushi", fish_id, <<"sashimi">>>>>>
  ELSE IF image_type = "natural"
  THEN <<<<"natural", fish_id, <<"natural", 1>>>>,
         <<"natural", fish_id, <<"natural", 2>>>>>>
  ELSE <<>>

NoRecord ==
  [description |-> <<>>, lifespan |-> <<>>, size |-> <<>>, weight |-> <<>>,
   habitats |-> <<>>, sushi_images |-> <<>>, wild_images |-> <<>>,
   habitat_map_image |-> <<>>]

\* extract_fish_data: the FishData record, or an exception of one of the
\* calls that build its fields.
extract_fish_data(fish_id, common_name, fishbase_data, wikipedia_data) ==
  LET description == build_description(common_name, fishbase_data, wikipedia_data)
      lifespan == extract_lifespan(fishbase_data)
      size == extract_size(fishbase_data)
      weight == extract_weight(fishbase_data)
  IN IF description.raised \/ size.raised \/ weight.raised
     THEN [raised |-> TRUE, record |-> NoRecord]
     ELSE [raised |-> FALSE,
           record |-> [description |-> description.value,
                       lifespan |-> lifespan.value,
                       size |-> size.value,
                       weight |-> weight.value,
                       habitats |-> extract_habitats(fishbase_data),
                       sushi_images |-> get_image_paths(fish_id, "sushi"),
                       wild_images |-> get_image_paths(fish_id, "natural"),
                       habitat_map_image |-> <<"maps", fish_id, <<"habitat">>>>]]

\* The image paths a FishData record holds for a category: wild_images,
\* sushi_images and habitat_map_image; the record has no field for the
\* scientific diagram.
RecordPaths(record, image_type) ==
  CASE image_type = "natural" -> record.wild_images
    [] image_type = "sushi" -> record.sushi_images
    [] image_type = "maps" -> <<record.habitat_map_image>>
    [] image_type = "scientific" -> <<>>

\* --------------------------------------------------------- generate_fish_id
\* A name is a sequence of characters, each a one-character string.
UpperCase ==
  <<"A", "B", "C", "D", "E", "F", "G", "H", "I", "J", "K", "L", "M",
    "N", "O", "P", "Q", "R", "S", "T", "U", "V", "W", "X", "Y", "Z">>
LowerCase ==
  <<"a", "b", "c", "d", "e", "f", "g", "h", "i", "j", "k", "l", "m",
    "n", "o", "p", "q", "r", "s", "t", "u", "v", "w", "x", "y", "z">>

\* A variant of lower() that leaves the name as it is.
Lower_keep(s) == s

\* str.lower().
Lower(s) ==
  [i \in 1..Len(s) |->
     IF \E k \in 1..Len(UpperCase) : UpperCase[k] = s[i]
     THEN LowerCase[CHOOSE k \in 1..Len(UpperCase) : UpperCase[k] = s[i]]
     ELSE s[i]]

\* str.replace(old, new) for one-character old and new.
Replace(s, old, new) == [i \in 1..Len(s) |-> IF s[i] = old THEN new ELSE s[i]]

\* generate_fish_id: common_name.lower().replace(" ", "_").replace("-", "_").
generate_fish_id(common_name) ==
  Replace(Replace(Lower(common_name), " ", "_"), "-", "_")

\* The common names of get_top_20_fish_species, in list order.
CommonNames ==
  <<
    \* Bluefin Tuna
    <<"B", "l", "u", "e", "f", "i", "n", " ", "T", "u", "n", "a">>,
    \* Yellowfin Tuna
    <<"Y", "e", "l", "l", "o", "w", "f", "i", "n", " ", "T", "u", "n",
     "a">>,
    \* Atlantic Salmon
    <<"A", "t", "l", "a", "n", "t", "i", "c", " ", "S", "a", "l", "m",
     "o", "n">>,
    \* Japanese Amberjack
    <<"J", "a", "p", "a", "n", "e", "s", "e", " ", "A", "m", "b", "e",
     "r", "j", "a", "c", "k">>,
    \* Red Sea Bream
    <<"R", "e", "d", " ", "S", "e", "a", " ", "B", "r", "e", "a", "m">>,
    \* Atlantic Mackerel
    <<"A", "t", "l", "a", "n", "t", "i", "c", " ", "M", "a", "c", "k",
     "e", "r", "e", "l">>,
    \* Horse Mackerel
    <<"H", "o", "r", "s", "e", " ", "M", "a", "c", "k", "e", "r", "e",
     "l">>,
    \* Japanese Sardine
    <<"J", "a", "p", "a", "n", "e", "s", "e", " ", "S", "a", "r", "d",
     "i", "n", "e">>,
    \* Japanese Sea Bass
    <<"J", "a", "p", "a", "n", "e", "s", "e", " ", "S", "e", "a", " ",
     "B", "a", "s", "s">>,
    \* Olive Flounder
    <<"O", "l", "i", "v", "e", " ", "F", "l", "o", "u", "n", "d", "e",
     "r">>,
    \* Red Snapper
    <<"R", "e", "d", " ", "S", "n", "a", "p", "p", "e", "r">>,
    \* Japanese Eel
    <<"J", "a", "p", "a", "n", "e", "s", "e", " ", "E", "e", "l">>,
    \* Conger Eel
    <<"C", "o", "n", "g", "e", "r", " ", "E", "e", "l">>,
    \* Japanese Flying Squid
    <<"J", "a", "p", "a", "n", "e", "s", "e", " ", "F", "l", "y", "i",
     "n", "g", " ", "S", "q", "u", "i", "d">>,
    \* Giant Pacific Octopus
    <<"G", "i", "a", "n", "t", " ", "P", "a", "c", "i", "f", "i", "c",
     " ", "O", "c", "t", "o", "p", "u", "s">>,
    \* Kuruma Prawn
    <<"K", "u", "r", "u", "m", "a", " ", "P", "r", "a", "w", "n">>,
    \* Japanese Scallop
    <<"J", "a", "p", "a", "n", "e", "s", "e", " ", "S", "c", "a", "l",
     "l", "o", "p">>,
    \* Sea Urchin
    <<"S", "e", "a", " ", "U", "r", "c", "h", "i", "n">>,
    \* Greater Amberjack
    <<"G", "r", "e", "a", "t", "e", "r", " ", "A", "m", "b", "e", "r",
     "j", "a", "c", "k">>,
    \* Pacific Saury
    <<"P", "a", "c", "i", "f", "i", "c", " ", "S", "a", "u", "r", "y">>
  >>

\* ------------------------------------------------- fix_and_resize_images.py
\* self.target_size = (400, 300); any other size is "other".
target_size == "400x300"
Sizes == {target_size, "other"}

\* `folders` of resize_all_images.
folders == <<"natural", "scientific", "maps", "sushi">>

\* self.broken_images, each "folder/filename" as the two parts of its split.
broken_images ==
  << <<"natural", "red_snapper_natural_2.jpg">>,
     <<"scientific", "atlantic_mackerel_diagram.jpg">>,
     <<"scientific", "bluefin_tuna_diagram.jpg">>,
     <<"scientific", "yellowfin_tuna_diagram.jpg">>,
     <<"maps", "atlantic_salmon_habitat.jpg">>,
     <<"maps", "horse_mackerel_habitat.jpg">> >>

\* An image file: where its content came from, whether Image.open accepts
\* it, and the size and mode Image.open reports.  "LA" stands for the modes
\* that are neither converted by resize_all_images nor accepted by the JPEG
\* encoder.
Modes == {"RGB", "RGBA", "P", "LA"}
Picture(origin, size, mode) ==
  [origin |-> origin, opens |-> TRUE, size |-> size, mode |-> mode]
Unreadable(origin) ==
  [origin |-> origin, opens |-> FALSE, size |-> "other", mode |-> "RGB"]
Pictures(origin) ==
  {Picture(origin, size, mode) : size \in Sizes, mode \in Modes}
    \cup {Unreadable(origin)}

\* What a save that raises leaves at the path: the imaging library opens the
\* file for writing before it encodes, so the old content may survive or be
\* lost.  The library behaves one way or the other throughout a run.
FailedSaveModes == {"unchanged", "truncated"}
FailedSave(file, failed_save) ==
  IF failed_save = "truncated" THEN Unreadable(file.origin) ELSE file

\* download_image_from_url of the fixer (lines 278-294), on one response:
\* the file is opened for writing only for a 200 response with an image
\* content type; an exception while the body is written leaves a partial
\* file and returns False.
replacement_download(r, replacement, old) ==
  IF RequestRaises(r) THEN [ret |-> FALSE, file |-> old]
  ELSE IF StatusCode(r) = 200 /\ IsImageType(r)
       THEN IF TransferRaises(r)
            THEN [ret |-> FALSE, file |-> <<Unreadable("partial")>>]
            ELSE [ret |-> TRUE, file |-> <<replacement>>]
       ELSE [ret |-> FALSE, file |-> old]

\* `srlimit` of the search: at most this many results are listed.
srlimit == 3

\* One search result: the response its image URL gets, or "no_url" when
\* get_wikimedia_image_url returns None.  "http_error" stands for every
\* response that makes the download return False without opening the file.
SearchResults == ItemResp \cup {"broken", "no_url"}

\* The loop `for result in data['query']['search']` of
\* try_wikimedia_download: the first result whose download returns True
\* ends the search with True.  `old` is the file at the path as a sequence
\* of at most one element.
RECURSIVE WikimediaResults(_, _, _)
WikimediaResults(results, replacement, old) ==
  IF results = <<>> THEN [ret |-> FALSE, file |-> old]
  ELSE IF Head(results) = "no_url"
       THEN WikimediaResults(Tail(results), replacement, old)
  ELSE LET d == replacement_download(Head(results), replacement, old)
       IN IF d.ret THEN d
          ELSE WikimediaResults(Tail(results), replacement, d.file)

\* try_wikimedia_download: a search that raises ("network", "malformed") or
\* answers with another status, or without results, returns False.
try_wikimedia_download(fault, results, replacement, old) ==
  IF fault # "none" THEN [ret |-> FALSE, file |-> old]
  ELSE WikimediaResults(results, replacement, old)

\* create_natural_placeholder, create_scientific_placeholder and
\* create_map_placeholder: a new RGB image of target_size saved at the path;
\* a save that raises is not handled.
create_placeholder(old, saves, failed_save) ==
  IF saves
  THEN [raised |-> FALSE,
        file |-> <<Picture("placeholder", target_size, "RGB")>>]
  ELSE [raised |-> TRUE,
        file |-> IF old = <<>> THEN <<>>
                 ELSE <<FailedSave(old[1], failed_save)>>]

\* The dispatch on the folder in fix_broken_images: the three folders of
\* broken_images have a placeholder; any other folder has none.
HasPlaceholder(folder) == folder \in {"natural", "scientific", "maps"}

\* `if img.mode in ('RGBA', 'P')`: both become RGB; other modes are kept.
ConvertMode(mode) == IF mode \in {"RGBA", "P"} THEN "RGB" ELSE mode

\* `resized_img.save(image_file, "JPEG", ...)` raises for a mode the JPEG
\* encoder does not write.
SaveRaises(mode) == mode = "LA"

\* A variant that resizes whatever the current size is.
NeedsResize_always(size) == TRUE

\* `if current_size != self.target_size`.
NeedsResize(size) == size # target_size

\* The body of the `try` of resize_all_images for one file: what is at the
\* path afterwards, whether an exception left the body, whether the file
\* was opened for writing, and whether total_resized was incremented.
resize_body(file, failed_save) ==
  IF ~file.opens
  THEN [file |-> file, raised |-> TRUE, written |-> FALSE, counted |-> FALSE]
  ELSE IF NeedsResize(file.size)
       THEN IF SaveRaises(ConvertMode(file.mode))
            THEN [file |-> FailedSave(file, failed_save), raised |-> TRUE,
                  written |-> TRUE, counted |-> FALSE]
            ELSE [file |-> Picture(file.origin, target_size,
                                   ConvertMode(file.mode)),
                  raised |-> FALSE, written |-> TRUE, counted |-> TRUE]
       ELSE [file |-> file, raised |-> FALSE, written |-> FALSE,
             counted |-> FALSE]

\* A variant without the handler: an exception in the body ends the batch.
resize_except_uncaught(raised) == raised

\* `except Exception as e: print(...)` around the body: the loop goes on to
\* the next file.  The result says whether the batch is abandoned.
resize_except(raised) == FALSE

\* -------------------------------------------------------------- get_aliases
\* `alias_map` of get_aliases.
alias_map ==
  [x \in {"Bluefin Tuna", "Yellowfin Tuna", "Atlantic Salmon",
          "Japanese Amberjack", "Red Sea Bream"} |->
     CASE x = "Bluefin Tuna" -> <<"Maguro", "Hon-maguro", "Kuro-maguro">>
       [] x = "Yellowfin Tuna" -> <<"Ahi", "Kihada">>
       [] x = "Atlantic Salmon" -> <<"Sake", "Norwegian Salmon">>
       [] x = "Japanese Amberjack" -> <<"Hamachi", "Yellowtail", "Buri">>
       [] x = "Red Sea Bream" -> <<"Tai", "Madai", "Sea Bream">>]

\* The lists that hold each element of S once.
RECURSIVE Orderings(_)
Orderings(S) ==
  IF S = {} THEN {<<>>}
  ELSE UNION {{<<x>> \o rest : rest \in Orderings(S \ {x})} : x \in S}

\* A variant that returns the list as it was built.
ListOfSet_same(list) == {list}

\* `list(set(aliases))`: the elements of the list, each once, in the order
\* the set happens to iterate; every order is a possible result.
ListOfSet(list) == Orderings({list[k] : k \in 1..Len(list)})

\* get_aliases: the lists it can return.
get_aliases(common_name, japanese_romaji) ==
  LET aliases == IF common_name \in DOMAIN alias_map
                 THEN <<japanese_romaji>> \o alias_map[common_name]
                 ELSE <<japanese_romaji>>
  IN ListOfSet(aliases)

\* -------------------------------------------------------------------- state
VARIABLES
  phase,              \* position in run_extraction
  si,                 \* index of the species the extraction loop is at
  fish_data_list,     \* run_extraction's list of extracted entities
  fi,                 \* index of the fish download_free_images is at
  pc,                 \* statement of the loop body of download_free_images
  src,                \* sources of the current pipeline already iterated
  images_downloaded,  \* running total of the current pipeline
  success_counts,     \* success_counts of the current fish
  sushi,              \* loop state of download_wikimedia_sushi_images
  files,              \* the image folders, at the paths of the current fish
  dataset,            \* content of fish_database.json
  calls_cat,          \* the pipeline that is running, or ran last
  calls,              \* the source calls that pipeline has completed
  last_fault,         \* the fault of the adapter invocation of the last step
  ph_mode,            \* what the imaging library did in the last generator run
  ph_calls,           \* generator calls made for this fish
  processed,          \* fish whose loop body has completed
  dl,                 \* the last direct call of download_image_from_url
  failed,             \* species whose extract_fish_data raised
  ex,                 \* one call of extract_fish_data: arguments and result
  gid,               \* calls of generate_fish_id: name, id, id of the id
  tape,              \* outcomes of the first of two runs, in the order they were consumed
  run,               \* two runs on one fish: which run this is, and the first run's result
  fx,                \* run_fix_and_resize: step, image files, and the history of the resize pass
  fn,                \* two calls of get_filename and get_image_folder: arguments and paths
  al                  \* one call of get_aliases: arguments and the returned list

vars == <<phase, si, fish_data_list, fi, pc, src, images_downloaded,
          success_counts, sushi, files, dataset, calls_cat, calls,
          last_fault, ph_mode, ph_calls, processed, dl, failed, ex, gid,
          tape, run, fx, fn, al>>

NoDataset ==
  [written |-> FALSE, fish_database |-> <<>>, total_species |-> 0,
   replaced |-> FALSE]
ZeroCounts == [natural |-> 0, scientific |-> 0, maps |-> 0, sushi |-> 0]
SushiStart == [t |-> 1, q |-> 1, n |-> 0]
NoDownload == [called |-> FALSE, resp |-> "ok", path |-> <<>>,
               before |-> NoFile, after |-> NoFile, ret |-> FALSE,
               opened |-> FALSE]
NoExtraction ==
  [done |-> FALSE, common_name |-> "", fishbase_data |-> <<>>,
   wikipedia_data |-> <<>>, raised |-> FALSE, record |-> NoRecord]
NoId == [n |-> 0, name |-> <<>>, id |-> <<>>, id_of_id |-> <<>>]
NoSnapshot == [files |-> <<>>, success_counts |-> ZeroCounts, ph_calls |-> {}]
NoRun == [mode |-> "off", names |-> <<>>, start |-> <<>>, first |-> NoSnapshot]
NoAliases ==
  [done |-> FALSE, common_name |-> "", japanese_romaji |-> "",
   aliases |-> <<>>]
NoCall == [image_type |-> "natural", index |-> 0, path |-> <<>>]
NoName == [called |-> FALSE, fish |-> 1, a |-> NoCall, b |-> NoCall]
NoFix ==
  [step |-> "off", i |-> 1, files |-> <<>>, success |-> {},
   failed_save |-> "unchanged", folder |-> 1, order |-> <<>>, errors |-> {},
   written |-> {}, resized |-> {}, total_resized |-> 0, pass |-> 1,
   before |-> <<>>, first_total |-> 0]

\* A variant that carries an entity's counters over to the next use.
FreshCounts_kept(previous) == previous

\* `success_counts = {'natural': 0, 'scientific': 0, 'maps': 0, 'sushi': 0}`
\* at the top of the loop body of download_free_images: every entity, in
\* every run, starts from zero whatever was counted before.
FreshCounts(previous) == ZeroCounts

Init ==
  /\ phase = "extract"
  /\ si = 1
  /\ fish_data_list = <<>>
  /\ fi = 1
  /\ pc = "natural"
  /\ src = 0
  /\ images_downloaded = 0
  /\ success_counts = ZeroCounts
  /\ sushi = SushiStart
  /\ files = <<>>
  /\ dataset = NoDataset
  /\ calls_cat = "none"
  /\ calls = <<>>
  /\ last_fault = "none"
  /\ ph_mode = "none"
  /\ ph_calls = {}
  /\ processed = <<>>
  /\ dl = NoDownload
  /\ failed = {}
  /\ ex = NoExtraction
  /\ gid = NoId
  /\ tape = <<>>
  /\ run = NoRun
  /\ fx = NoFix
  /\ fn = NoName
  /\ al = NoAliases

CurrentFish == fish_data_list[fi]

\* The outcomes the environment offers to a request of adapter `name`: any
\* of Inputs(name); in the first of two compared runs one of ReplayInputs;
\* in the second run the outcome the first run got at this position.
Offered(name) ==
  CASE run.mode = "off" -> Inputs(name)
    [] run.mode = "first" -> ReplayInputs(name)
    [] run.mode = "second" ->
         IF Len(run.names) < Len(tape)
         THEN {tape[Len(run.names) + 1].inp} ELSE {}

\* The same for what the imaging library does in the placeholder generator.
OfferedModes ==
  CASE run.mode \in {"off", "first"} -> PilModes
    [] run.mode = "second" ->
         IF Len(run.names) < Len(tape)
         THEN {tape[Len(run.names) + 1].inp.fault} ELSE {}

\* The first run records each outcome with the function that consumed it;
\* the second run records the functions it invokes.
Log(name, inp) ==
  /\ tape' = IF run.mode = "first"
             THEN Append(tape, [name |-> name, inp |-> inp]) ELSE tape
  /\ run' = IF run.mode = "second"
            THEN [run EXCEPT !.names = Append(@, name)] ELSE run

\* A variant that keeps an entity whose extraction raised.
Collect_always(list, species_info, raised) == Append(list, species_info)

\* `try: fish_data = self.extract_fish_data(species_info);
\* fish_data_list.append(fish_data) / except Exception: print(...)`.
Collect(list, species_info, raised) ==
  IF raised THEN list ELSE Append(list, species_info)

\* run_extraction, one iteration of `for species_info in species_list`, and,
\* after the last one, the call of download_free_images.
ExtractFish ==
  /\ phase = "extract"
  /\ \E md \in Metadata :
       LET list == Collect(fish_data_list, SpeciesList[si], ExtractRaises(md))
       IN /\ fish_data_list' = list
          /\ failed' = IF ExtractRaises(md) THEN failed \cup {SpeciesList[si]}
                       ELSE failed
          /\ si' = si + 1
          /\ phase' = IF si < Len(SpeciesList) THEN "extract"
                      ELSE IF list = <<>> THEN "json" ELSE "images"
  /\ UNCHANGED <<fi, pc, src, images_downloaded, success_counts, sushi, files,
                 dataset, calls_cat, calls, last_fault, ph_mode, ph_calls,
                 processed, dl, ex, gid, tape, run, fx, fn, al>>

\* The pipeline loop after the source at position src + 1 returned or raised
\* r: accumulate, then either go on to the next source or return the total
\* to download_free_images (`success_counts[cat] += ...`).
AfterSource(cat, name, fault, r) ==
  LET out == SourceOutcome(images_downloaded, r)
      finished == \/ src + 1 = Len(sources[cat])
                  \/ LoopBreak(out.total, target_count[cat])
      call == [name |-> name, before |-> images_downloaded,
               raised |-> r.raised, ret |-> r.count, slept |-> Sleeps(r)]
  IN /\ files' = r.files
     /\ calls_cat' = cat
     /\ calls' = IF src = 0 THEN <<call>> ELSE Append(calls, call)
     /\ last_fault' = fault
     /\ sushi' = SushiStart
     /\ IF out.abort
        THEN /\ phase' = "aborted"
             /\ UNCHANGED <<pc, src, images_downloaded, success_counts>>
        ELSE /\ phase' = phase
             /\ IF finished
                THEN /\ success_counts' =
                          [success_counts EXCEPT ![cat] = @ + out.total]
                     /\ pc' = NextPc(cat)
                     /\ src' = 0
                     /\ images_downloaded' = 0
                ELSE /\ src' = src + 1
                     /\ images_downloaded' = out.total
                     /\ UNCHANGED <<pc, success_counts>>
     /\ UNCHANGED <<si, fish_data_list, fi, dataset, ph_mode, ph_calls,
                    processed, dl, failed, ex, gid, fx, fn, al>>

\* One iteration of `for source_func in sources` in download_natural_images,
\* download_scientific_diagrams, download_habitat_maps or
\* download_sushi_images (sources after the first).
CallSource(cat) ==
  /\ phase = "images"
  /\ pc = cat
  /\ ~(cat = "sushi" /\ src = 0)
  /\ LET name == sources[cat][src + 1]
     IN \E inp \in Offered(name) :
          /\ AfterSource(cat, name, inp.fault,
                         Invoke(name, CurrentFish, cat, inp, files))
          /\ Log(name, inp)

\* The first source of download_sushi_images, download_wikimedia_sushi_images:
\* one call of download_wikimedia_images(..., 'sushi') per step; after the
\* last search the adapter returns min(images_downloaded, 2).
SushiSearch ==
  /\ phase = "images"
  /\ pc = "sushi"
  /\ src = 0
  /\ LET name == "download_wikimedia_sushi_images"
     IN \E inp \in Offered(name) :
          LET w == Invoke("download_wikimedia_images", CurrentFish, "sushi",
                          inp, files)
              n == sushi.n + w.count
              pos == NextSushiPos(sushi.t, sushi.q, w.count, n)
          IN /\ Log(name, inp)
             /\ IF w.raised
                THEN AfterSource("sushi", name, inp.fault, w)
                ELSE IF pos.t > 2
                THEN AfterSource("sushi", name, inp.fault,
                                 [w EXCEPT !.count = Min(n, 2)])
                ELSE /\ sushi' = [t |-> pos.t, q |-> pos.q, n |-> n]
                     /\ files' = w.files
                     /\ last_fault' = inp.fault
                     /\ calls_cat' = "sushi"
                     /\ calls' = <<>>
                     /\ UNCHANGED <<phase, si, fish_data_list, fi, pc, src,
                                    images_downloaded, success_counts,
                                    dataset, ph_mode, ph_calls, processed,
                                    dl, failed, ex, gid, fx, fn, al>>

\* create_missing_placeholders for the current fish.
CreateMissingPlaceholders ==
  /\ phase = "images"
  /\ pc = "placeholders"
  /\ \E mode \in OfferedModes :
       /\ files' = create_missing_placeholders(files, CurrentFish,
                                               success_counts, mode, Cats)
       /\ ph_mode' = mode
       /\ Log("create_missing_placeholders", [fault |-> mode, cands |-> <<>>])
  /\ ph_calls' = PlaceholderCalls(success_counts)
  /\ last_fault' = "none"
  /\ pc' = "delay"
  /\ UNCHANGED <<phase, si, fish_data_list, fi, src, images_downloaded,
                 success_counts, sushi, dataset, calls_cat, calls,
                 processed, dl, failed, ex, gid, fx, fn, al>>

\* `time.sleep(2)` and the next iteration of `for fish in fish_list`, or the
\* return to run_extraction after the last fish.
NextFish ==
  /\ phase = "images"
  /\ pc = "delay"
  /\ processed' = Append(processed, CurrentFish)
  /\ IF fi < Len(fish_data_list)
     THEN /\ fi' = fi + 1
          /\ pc' = "natural"
          /\ success_counts' = FreshCounts(success_counts)
          /\ calls_cat' = "none"
          /\ calls' = <<>>
          /\ last_fault' = "none"
          /\ ph_mode' = "none"
          /\ ph_calls' = {}
          /\ files' = <<>>
          /\ UNCHANGED phase
     ELSE /\ phase' = "json"
          /\ UNCHANGED <<fi, pc, success_counts, calls_cat, calls,
                         last_fault, ph_mode, ph_calls, files>>
  /\ UNCHANGED <<si, fish_data_list, src, images_downloaded, sushi,
                 dataset, dl, failed, ex, gid, tape, run, fx, fn, al>>

\* A variant that opens the file for appending.
generate_json_dataset_append(fish_list, old) ==
  [written |-> TRUE, fish_database |-> old.fish_database \o fish_list,
   total_species |-> Len(fish_list), replaced |-> old.written]

\* generate_json_dataset: the content of fish_database.json after
\* `open(json_path, 'w')` and json.dump of the records of fish_list and of
\* the metadata with total_species = len(fish_list).  `replaced` says
\* whether a file was at the path before.
generate_json_dataset(fish_list, old) ==
  [written |-> TRUE, fish_database |-> fish_list,
   total_species |-> Len(fish_list), replaced |-> old.written]

\* generate_json_dataset(fish_data_list) and the end of run_extraction.
GenerateJson ==
  /\ phase = "json"
  /\ dataset' = generate_json_dataset(fish_data_list, dataset)
  /\ phase' = "done"
  /\ UNCHANGED <<si, fish_data_list, fi, pc, src, images_downloaded,
                 success_counts, sushi, files, calls_cat, calls,
                 last_fault, ph_mode, ph_calls, processed, dl, failed, ex, gid,
                 tape, run, fx, fn, al>>

Next ==
  \/ ExtractFish
  \/ CallSource("natural")
  \/ CallSource("scientific")
  \/ CallSource("maps")
  \/ CallSource("sushi")
  \/ SushiSearch
  \/ CreateMissingPlaceholders
  \/ NextFish
  \/ GenerateJson

Spec == Init /\ [][Next]_vars

\* The program runs to completion: some step is taken whenever one is enabled.
FairSpec == Spec /\ WF_vars(Next)

\* ------------------------------------------- download_free_images run twice
\* download_free_images on a list of one entity, run a first time from some
\* image folders with outcomes chosen by the environment, then a second time
\* from the same folders with the same outcome for each request in turn.
RerunFolders ==
  {<<>>, (FilePath(1, "natural", 0) :> "real")
           @@ (FilePath(1, "sushi", 0) :> "placeholder")}

InitRerun ==
  /\ phase = "images"
  /\ si = 1
  /\ fish_data_list = <<1>>
  /\ fi = 1
  /\ pc = "natural"
  /\ src = 0
  /\ images_downloaded = 0
  /\ success_counts = ZeroCounts
  /\ sushi = SushiStart
  /\ files \in RerunFolders
  /\ dataset = NoDataset
  /\ calls_cat = "none"
  /\ calls = <<>>
  /\ last_fault = "none"
  /\ ph_mode = "none"
  /\ ph_calls = {}
  /\ processed = <<>>
  /\ dl = NoDownload
  /\ failed = {}
  /\ ex = NoExtraction
  /\ gid = NoId
  /\ tape = <<>>
  /\ run = [NoRun EXCEPT !.mode = "first", !.start = files]
  /\ fx = NoFix
  /\ fn = NoName
  /\ al = NoAliases

\* The first run has returned; the second call of download_free_images on
\* the same list begins, the image folders put back as they were.
StartRerun ==
  /\ run.mode = "first"
  /\ phase = "images"
  /\ pc = "delay"
  /\ run' = [run EXCEPT !.mode = "second",
                        !.first = [files |-> files,
                                   success_counts |-> success_counts,
                                   ph_calls |-> ph_calls]]
  /\ files' = run.start
  /\ success_counts' = FreshCounts(success_counts)
  /\ pc' = "natural"
  /\ calls_cat' = "none"
  /\ calls' = <<>>
  /\ last_fault' = "none"
  /\ ph_mode' = "none"
  /\ ph_calls' = {}
  /\ UNCHANGED <<phase, si, fish_data_list, fi, src, images_downloaded,
                 sushi, dataset, processed, dl, failed, ex, gid, tape, fx, fn, al>>

NextRerun ==
  \/ CallSource("natural")
  \/ CallSource("scientific")
  \/ CallSource("maps")
  \/ CallSource("sushi")
  \/ SushiSearch
  \/ CreateMissingPlaceholders
  \/ StartRerun

SpecRerun == InitRerun /\ [][NextRerun]_vars

\* ------------------------------------------------------- run_fix_and_resize
\* run_fix_and_resize on image folders that hold the broken images, and
\* resize_all_images called twice on folders with any pictures.
FileAt(f, p) == IF p \in DOMAIN f THEN <<f[p]>> ELSE <<>>
Store(f, p, file) == IF file = <<>> THEN f ELSE (p :> file[1]) @@ f

\* A .jpg file of the folders that is not listed in broken_images.
OtherImage == <<"sushi", "a.jpg">>

\* The image folders when the script starts.  At the paths of
\* broken_images: files that do not open, or pictures of a mode the encoder
\* rejects.  At the other path: a file that does not open, or a picture of
\* another size.
BrokenFolders ==
  {(OtherImage :> other)
     @@ [p \in {broken_images[i] : i \in 1..Len(broken_images)} |-> file] :
     file \in {Unreadable("original"), Picture("original", "other", "LA")},
     other \in {Unreadable("original"), Picture("original", "other", "RGB")}}

\* The pictures a replacement download can deliver.
Replacements ==
  {Picture("replacement", size, "RGB") : size \in Sizes}

\* The answers to one search of try_wikimedia_download.
Searches ==
  [fault : {"none"}, results : SeqsUpTo(SearchResults, srlimit)]
  \cup [fault : ListedFaults, results : {<<>>}]

ImageNames == <<"a.jpg", "b.jpg", "c.jpg", "d.jpg", "e.jpg">>
ResizePaths == {<<folders[(i + 1) \div 2], ImageNames[i]>> : i \in 1..MaxImages}

Others == <<phase, si, fish_data_list, fi, pc, src, images_downloaded,
            success_counts, sushi, files, dataset, calls_cat, calls,
            last_fault, ph_mode, ph_calls, processed, dl, failed, ex, gid,
            tape, run>>

InitOthers ==
  /\ phase = "fix"
  /\ si = 1
  /\ fish_data_list = <<>>
  /\ fi = 1
  /\ pc = "natural"
  /\ src = 0
  /\ images_downloaded = 0
  /\ success_counts = ZeroCounts
  /\ sushi = SushiStart
  /\ files = <<>>
  /\ dataset = NoDataset
  /\ calls_cat = "none"
  /\ calls = <<>>
  /\ last_fault = "none"
  /\ ph_mode = "none"
  /\ ph_calls = {}
  /\ processed = <<>>
  /\ dl = NoDownload
  /\ failed = {}
  /\ ex = NoExtraction
  /\ gid = NoId
  /\ tape = <<>>
  /\ run = NoRun

StartResize(f) ==
  [step |-> "resize", folder |-> 1, order |-> <<>>, errors |-> {},
   written |-> {}, resized |-> {}, total_resized |-> 0, before |-> f]

InitFix ==
  /\ InitOthers
  /\ fx \in {[NoFix EXCEPT !.step = "download", !.files = f,
                           !.failed_save = m] :
               f \in BrokenFolders, m \in FailedSaveModes}
  /\ fn = NoName
  /\ al = NoAliases

InitResize ==
  /\ InitOthers
  /\ fx \in {StartResize(f) @@ [NoFix EXCEPT !.files = f, !.failed_save = m] :
               f \in UNION {[S -> Pictures("original")] :
                              S \in SUBSET ResizePaths},
               m \in FailedSaveModes}
  /\ fn = NoName
  /\ al = NoAliases

\* One iteration of the loop of download_better_replacement_images.
DownloadReplacement ==
  /\ fx.step = "download"
  /\ \E search \in Searches, replacement \in Replacements :
       LET p == broken_images[fx.i]
           d == try_wikimedia_download(search.fault, search.results,
                                       replacement, FileAt(fx.files, p))
           last == fx.i = Len(broken_images)
       IN fx' = [fx EXCEPT !.files = Store(@, p, d.file),
                           !.success = IF d.ret THEN @ \cup {fx.i} ELSE @,
                           !.i = IF last THEN 1 ELSE @ + 1,
                           !.step = IF last THEN "fix" ELSE @]
  /\ UNCHANGED <<Others, fn, al>>

\* One iteration of the loop of fix_broken_images; after the last one
\* run_fix_and_resize calls resize_all_images.
FixBrokenImage ==
  /\ fx.step = "fix"
  /\ \E saves \in BOOLEAN :
       LET p == broken_images[fx.i]
           old == FileAt(fx.files, p)
           c == IF HasPlaceholder(p[1])
                THEN create_placeholder(old, saves, fx.failed_save)
                ELSE [raised |-> FALSE, file |-> old]
           f == Store(fx.files, p, c.file)
           last == fx.i = Len(broken_images)
       IN fx' = IF c.raised
                THEN [fx EXCEPT !.files = f, !.step = "aborted"]
                ELSE IF last
                THEN StartResize(f) @@ [fx EXCEPT !.files = f, !.i = 1]
                ELSE [fx EXCEPT !.files = f, !.i = @ + 1]
  /\ UNCHANGED <<Others, fn, al>>

Range(s) == {s[k] : k \in 1..Len(s)}

\* The files `folder_path.glob('*.jpg')` has not yielded yet.
Remaining ==
  {p \in DOMAIN fx.before : p[1] = folders[fx.folder] /\ p \notin Range(fx.order)}

\* One iteration of the inner loop of resize_all_images, on a file of the
\* current folder, in whatever order glob yields them.
ResizeImage ==
  /\ fx.step = "resize"
  /\ fx.folder <= Len(folders)
  /\ \E p \in Remaining :
       LET b == resize_body(fx.files[p], fx.failed_save)
       IN fx' = [fx EXCEPT
                   !.files = Store(@, p, <<b.file>>),
                   !.order = Append(@, p),
                   !.errors = IF b.raised THEN @ \cup {p} ELSE @,
                   !.written = IF b.written THEN @ \cup {p} ELSE @,
                   !.resized = IF b.counted THEN @ \cup {p} ELSE @,
                   !.total_resized = IF b.counted THEN @ + 1 ELSE @,
                   !.step = IF resize_except(b.raised) THEN "aborted" ELSE @]
  /\ UNCHANGED <<Others, fn, al>>

\* `for folder in folders`: the next folder once glob is exhausted (a folder
\* that does not exist is passed over); after the last, the summary line.
NextFolder ==
  /\ fx.step = "resize"
  /\ fx.folder <= Len(folders)
  /\ Remaining = {}
  /\ fx' = [fx EXCEPT !.folder = @ + 1,
                      !.step = IF fx.folder = Len(folders) THEN "done" ELSE @]
  /\ UNCHANGED <<Others, fn, al>>

\* resize_all_images called again right after it returned.
ResizeAgain ==
  /\ fx.step = "done"
  /\ fx.pass = 1
  /\ fx' = StartResize(fx.files)
             @@ [fx EXCEPT !.pass = 2, !.first_total = fx.total_resized]
  /\ UNCHANGED <<Others, fn, al>>

NextFix == DownloadReplacement \/ FixBrokenImage \/ ResizeImage \/ NextFolder

SpecFix == InitFix /\ [][NextFix]_vars

NextResize == ResizeImage \/ NextFolder \/ ResizeAgain

SpecResize == InitResize /\ [][NextResize]_vars

\* -------------------------------------------- generate_json_dataset alone
\* generate_json_dataset given any list of up to MaxRecords records, with or
\* without a fish_database.json left by an earlier run.
PriorDatasets ==
  {NoDataset,
   [written |-> TRUE, fish_database |-> <<>>, total_species |-> 0,
    replaced |-> FALSE],
   [written |-> TRUE, fish_database |-> <<2, 1>>, total_species |-> 2,
    replaced |-> FALSE]}

InitJson ==
  /\ phase = "json"
  /\ si = 1
  /\ fish_data_list \in SeqsUpTo(1..MaxRecords, MaxRecords)
  /\ fi = 1
  /\ pc = "natural"
  /\ src = 0
  /\ images_downloaded = 0
  /\ success_counts = ZeroCounts
  /\ sushi = SushiStart
  /\ files = <<>>
  /\ dataset \in PriorDatasets
  /\ calls_cat = "none"
  /\ calls = <<>>
  /\ last_fault = "none"
  /\ ph_mode = "none"
  /\ ph_calls = {}
  /\ processed = <<>>
  /\ dl = NoDownload
  /\ failed = {}
  /\ ex = NoExtraction
  /\ gid = NoId
  /\ tape = <<>>
  /\ run = NoRun
  /\ fx = NoFix
  /\ fn = NoName
  /\ al = NoAliases

NextJson == GenerateJson

SpecJson == InitJson /\ [][NextJson]_vars

\* ------------------------------------------------------ get_filename alone
\* get_filename and get_image_folder called twice for one entity, with any
\* two image types (the four categories or another) and any two indices.
ImageTypes == CatSet \cup {"other"}
NameCalls ==
  [image_type : ImageTypes, index : 0..MaxIndex, path : {<<>>}]

InitName ==
  /\ InitOthers
  /\ fx = NoFix
  /\ fn \in [called : {FALSE}, fish : {1, 2}, a : NameCalls, b : NameCalls]
  /\ al = NoAliases

\* images_dir / get_image_folder(image_type) / get_filename(fish_id,
\* image_type, index), for both calls.
NameFiles ==
  /\ ~fn.called
  /\ fn' = [fn EXCEPT
              !.called = TRUE,
              !.a.path = FilePath(fn.fish, fn.a.image_type, fn.a.index),
              !.b.path = FilePath(fn.fish, fn.b.image_type, fn.b.index)]
  /\ UNCHANGED <<Others, fx, al>>

NextName == NameFiles

SpecName == InitName /\ [][NextName]_vars

\* ------------------------------------------------------- get_aliases alone
\* get_aliases called with a common name that has a table entry or not, and
\* a romaji name that occurs in a table entry or not.
AliasNames == DOMAIN alias_map \cup {"Sea Urchin"}
RomajiNames == {"Maguro", "Kihada", "Sake", "Buri", "Tai", "Uni", "Saba"}

InitAliases ==
  /\ InitOthers
  /\ fx = NoFix
  /\ fn = NoName
  /\ al \in [done : {FALSE}, common_name : AliasNames,
             japanese_romaji : RomajiNames, aliases : {<<>>}]

GetAliases ==
  /\ ~al.done
  /\ \E list \in get_aliases(al.common_name, al.japanese_romaji) :
       al' = [al EXCEPT !.done = TRUE, !.aliases = list]
  /\ UNCHANGED <<Others, fx, fn>>

NextAliases == GetAliases

SpecAliases == InitAliases /\ [][NextAliases]_vars

\* ------------------------------------------- download_image_from_url alone
\* download_image_from_url applied to paths with any existing content, with
\* every response of Resp.
DownloadPaths == {FilePath(1, "natural", 0), FilePath(1, "scientific", 0)}
Contents == {"real", "partial", "placeholder", "basic"}

InitDownload ==
  /\ phase = "download"
  /\ si = 1
  /\ fish_data_list = <<1>>
  /\ fi = 1
  /\ pc = "natural"
  /\ src = 0
  /\ images_downloaded = 0
  /\ success_counts = ZeroCounts
  /\ sushi = SushiStart
  /\ files \in UNION {[S -> Contents] : S \in SUBSET DownloadPaths}
  /\ dataset = NoDataset
  /\ calls_cat = "none"
  /\ calls = <<>>
  /\ last_fault = "none"
  /\ ph_mode = "none"
  /\ ph_calls = {}
  /\ processed = <<>>
  /\ dl = NoDownload
  /\ failed = {}
  /\ ex = NoExtraction
  /\ gid = NoId
  /\ tape = <<>>
  /\ run = NoRun
  /\ fx = NoFix
  /\ fn = NoName
  /\ al = NoAliases

DownloadImage ==
  /\ phase = "download"
  /\ \E p \in DownloadPaths, r \in Resp :
       LET d == download_image_from_url(r, Read(files, p))
       IN /\ files' = Write(files, p, d.content)
          /\ dl' = [called |-> TRUE, resp |-> r, path |-> p,
                    before |-> Read(files, p), after |-> d.content,
                    ret |-> d.ret, opened |-> d.opened]
  /\ UNCHANGED <<phase, si, fish_data_list, fi, pc, src, images_downloaded,
                 success_counts, sushi, dataset, calls_cat, calls, last_fault,
                 ph_mode, ph_calls, processed, failed, ex, gid, tape, run, fx, fn, al>>

NextDownload == DownloadImage

SpecDownload == InitDownload /\ [][NextDownload]_vars

\* --------------------------------------------------- extract_fish_data alone
\* extract_fish_data applied to one species with every answer of the two
\* metadata sources.
ExtractNames == {"Bluefin Tuna", "Sea Urchin"}

InitExtract ==
  /\ phase = "extract_one"
  /\ si = 1
  /\ fish_data_list = <<>>
  /\ fi = 1
  /\ pc = "natural"
  /\ src = 0
  /\ images_downloaded = 0
  /\ success_counts = ZeroCounts
  /\ sushi = SushiStart
  /\ files = <<>>
  /\ dataset = NoDataset
  /\ calls_cat = "none"
  /\ calls = <<>>
  /\ last_fault = "none"
  /\ ph_mode = "none"
  /\ ph_calls = {}
  /\ processed = <<>>
  /\ dl = NoDownload
  /\ failed = {}
  /\ ex \in [done : {FALSE}, common_name : ExtractNames,
             fishbase_data : FishbaseData, wikipedia_data : WikipediaData,
             raised : {FALSE}, record : {NoRecord}]
  /\ gid = NoId
  /\ tape = <<>>
  /\ run = NoRun
  /\ fx = NoFix
  /\ fn = NoName
  /\ al = NoAliases

ExtractOne ==
  /\ phase = "extract_one"
  /\ ~ex.done
  /\ LET r == extract_fish_data(1, ex.common_name, ex.fishbase_data,
                                ex.wikipedia_data)
     IN ex' = [ex EXCEPT !.done = TRUE, !.raised = r.raised,
                         !.record = r.record]
  /\ UNCHANGED <<phase, si, fish_data_list, fi, pc, src, images_downloaded,
                 success_counts, sushi, files, dataset, calls_cat, calls,
                 last_fault, ph_mode, ph_calls, processed, dl, failed, gid,
                 tape, run, fx, fn, al>>

NextExtract == ExtractOne

SpecExtract == InitExtract /\ [][NextExtract]_vars

\* ---------------------------------------------------- generate_fish_id alone
\* generate_fish_id applied to the twenty common names and to every short
\* name over letters, space, hyphen and underscore, and then to its result.
NameChars == {"A", "b", " ", "-", "_"}
Names == {CommonNames[i] : i \in DOMAIN CommonNames}
         \cup SeqsUpTo(NameChars, MaxNameLen)

InitId ==
  /\ phase = "generate_id"
  /\ si = 1
  /\ fish_data_list = <<>>
  /\ fi = 1
  /\ pc = "natural"
  /\ src = 0
  /\ images_downloaded = 0
  /\ success_counts = ZeroCounts
  /\ sushi = SushiStart
  /\ files = <<>>
  /\ dataset = NoDataset
  /\ calls_cat = "none"
  /\ calls = <<>>
  /\ last_fault = "none"
  /\ ph_mode = "none"
  /\ ph_calls = {}
  /\ processed = <<>>
  /\ dl = NoDownload
  /\ failed = {}
  /\ ex = NoExtraction
  /\ gid \in [n : {0}, name : Names, id : {<<>>}, id_of_id : {<<>>}]
  /\ tape = <<>>
  /\ run = NoRun
  /\ fx = NoFix
  /\ fn = NoName
  /\ al = NoAliases

\* fish_id = self.generate_fish_id(common_name)
GenerateId ==
  /\ phase = "generate_id"
  /\ gid.n = 0
  /\ gid' = [gid EXCEPT !.n = 1, !.id = generate_fish_id(gid.name)]
  /\ UNCHANGED <<phase, si, fish_data_list, fi, pc, src, images_downloaded,
                 success_counts, sushi, files, dataset, calls_cat, calls,
                 last_fault, ph_mode, ph_calls, processed, dl, failed, ex, tape,
                 run, fx, fn, al>>

\* generate_fish_id applied to an id.
GenerateIdOfId ==
  /\ phase = "generate_id"
  /\ gid.n = 1
  /\ gid' = [gid EXCEPT !.n = 2, !.id_of_id = generate_fish_id(gid.id)]
  /\ UNCHANGED <<phase, si, fish_data_list, fi, pc, src, images_downloaded,
                 success_counts, sushi, files, dataset, calls_cat, calls,
                 last_fault, ph_mode, ph_calls, processed, dl, failed, ex, tape,
                 run, fx, fn, al>>

NextId == GenerateId \/ GenerateIdOfId

SpecId == InitId /\ [][NextId]_vars

\* ================================================================= properties
\* download_free_images has finished the body of its loop for the current fish.
FishDone == phase = "images" /\ pc = "delay"

\* The paths get_image_paths promises for a fish.
TargetPaths(fish) ==
  UNION {RequestedPaths(fish, c, 0, targets[c]) : c \in CatSet}

Placeholder == {"placeholder", "basic"}
LastCall == calls[Len(calls)]

\* C1: after download_free_images has processed an entity a file exists at
\* every target path of the entity, exactly 2 natural, 1 scientific, 1 maps
\* and 2 sushi files, whatever the adapters did.
C1_EveryTargetPathExists ==
  FishDone => DOMAIN files = TargetPaths(CurrentFish)

\* C2: the running total of a pipeline never exceeds its target: an adapter
\* invoked at total k adds at most target - k, and the count a pipeline
\* returns is between 0 and the target.
C2_TotalWithinTarget ==
  /\ \A c \in CatSet : success_counts[c] \in 0..target_count[c]
  /\ (phase = "images" /\ pc \in CatSet) =>
        images_downloaded \in 0..target_count[pc]
  /\ \A i \in DOMAIN calls :
        ~calls[i].raised =>
           calls[i].ret <= target_count[calls_cat] - calls[i].before

\* C3: when the first adapter of a pipeline returns the full target, no later
\* adapter of the pipeline is invoked and no placeholder is generated for
\* that category.
C3_EarlyStop ==
  /\ (calls # <<>> /\ ~calls[1].raised
        /\ calls[1].ret = target_count[calls_cat]) =>
       /\ Len(calls) = 1
       /\ ~(phase = "images" /\ pc = calls_cat)
       /\ success_counts[calls_cat] = target_count[calls_cat]
  /\ \A c \in CatSet :
       success_counts[c] = targets[c] =>
          \A call \in ph_calls : call.image_type # c

C3_Witness ==
  /\ FishDone
  /\ calls_cat = "sushi"
  /\ Len(calls) = 1
  /\ ~calls[1].raised
  /\ calls[1].ret = target_count["sushi"]
  /\ ph_calls # {}
  /\ \A call \in ph_calls : call.image_type # "sushi"

\* C4: when a pipeline ended with d < target real images, the generator
\* writes exactly target - d placeholders, at indices d..target-1, and none
\* of them replaces a real image saved in this run.
C4_PlaceholdersFillGap ==
  [][(phase = "images" /\ pc = "placeholders" /\ pc' = "delay") =>
       \A c \in CatSet :
         success_counts[c] < targets[c] =>
           \A i \in 0..(targets[c] - 1) :
             LET p == FilePath(CurrentFish, c, i)
             IN IF i >= success_counts[c]
                THEN /\ Read(files', p) \in Placeholder
                     /\ Read(files, p) # "real"
                ELSE Read(files', p) = Read(files, p)]_vars

\* C5: when every adapter of every pipeline returned zero, the generator is
\* invoked for each category with indices 0..target-1 and a placeholder file
\* is written at each of these paths.
C5_AllZeroAllPlaceholders ==
  (FishDone /\ success_counts = ZeroCounts) =>
     /\ ph_calls = {[image_type |-> c, start_index |-> 0,
                     count |-> targets[c]] : c \in CatSet}
     /\ \A p \in TargetPaths(CurrentFish) : Read(files, p) \in Placeholder

\* C6: after create_type_specific_placeholders returns, a file exists at
\* every requested path; when the imaging library is missing or rendering
\* raises any other exception, the minimal JPEG is written there instead.
C6_RequestedPlaceholderExists ==
  FishDone =>
    \A call \in ph_calls :
      \A p \in RequestedPaths(CurrentFish, call.image_type,
                              call.start_index, call.count) :
        /\ p \in DOMAIN files
        /\ ph_mode # "ok" => files[p] = "basic"

\* C7: a source call that raises is treated like one that returns zero: the
\* running total is unchanged, the next adapter in priority order is tried,
\* and after the last adapter the pipeline returns the accumulated count.
C7_RaiseIsZero ==
  \A i \in DOMAIN calls :
    calls[i].raised =>
      /\ phase # "aborted"
      /\ i < Len(calls) => calls[i + 1].before = calls[i].before
      /\ i = Len(calls) =>
           IF i < Len(sources[calls_cat])
           THEN /\ phase = "images"
                /\ pc = calls_cat
                /\ src = i
                /\ images_downloaded = calls[i].before
           ELSE success_counts[calls_cat] = calls[i].before

C7_Witness ==
  \E i \in DOMAIN calls :
    /\ calls[i].raised
    /\ calls[i].before > 0
    /\ i < Len(calls)
    /\ calls[i + 1].name = sources[calls_cat][i + 1]

\* C8: download_image_from_url opens and writes the file only when the
\* response has status 200 and a content type containing "image", and
\* returns True only then; on any other response or a request error it
\* returns False and the file is as it was.
C8_WriteOnlyImage200 ==
  dl.called =>
    LET good == /\ ~RequestRaises(dl.resp)
                /\ StatusCode(dl.resp) = 200
                /\ IsImageType(dl.resp)
    IN /\ dl.opened => good
       /\ dl.ret => good /\ dl.opened /\ dl.after = "real"
       /\ ~good => ~dl.ret /\ ~dl.opened /\ dl.after = dl.before
       /\ Read(files, dl.path) = dl.after

C8_Witness ==
  /\ dl.called
  /\ dl.resp = "not_image"
  /\ dl.before = "placeholder"
  /\ dl.after = "placeholder"
  /\ ~dl.ret

\* C9: no source adapter raises past its own boundary on a network error, a
\* non-200 response, a malformed payload or a failed item download: it
\* returns a count that is never negative, 0 when it saved nothing.
C9_AdaptersCatch ==
  LET inSushi == /\ phase = "images" /\ pc = "sushi" /\ src = 0
                 /\ sushi # SushiStart
      afterCall == phase = "images" /\ pc \in CatSet \cup {"placeholders"}
  IN (afterCall /\ last_fault # "unguarded") =>
       IF inSushi THEN sushi.n \in Nat
       ELSE calls # <<>> =>
              /\ ~LastCall.raised
              /\ LastCall.ret \in Nat
              /\ (last_fault \in ListedFaults
                    /\ LastCall.name # "download_wikimedia_sushi_images") =>
                   LastCall.ret = 0

C9_Witness ==
  /\ last_fault = "malformed"
  /\ calls # <<>>
  /\ LastCall.name = "download_gbif_images"
  /\ LastCall.before = 1
  /\ ~LastCall.raised
  /\ LastCall.ret = 0

\* C10: no error of the extraction or of the image pipelines aborts the
\* batch: run_extraction terminates, having run the pipelines for every
\* extracted entity and then written the dataset.
C10_RunReachesDataset ==
  <>(/\ phase = "done"
     /\ dataset.written
     /\ dataset.fish_database = fish_data_list
     /\ processed = fish_data_list)

C10_Witness ==
  /\ phase = "done"
  /\ dataset.written
  /\ fish_data_list = <<2>>
  /\ processed = <<2>>
  /\ ph_mode = "broken"
  /\ \E i \in DOMAIN calls : calls[i].raised

\* C11: an entity whose extraction raised is omitted and nothing else is: the
\* collection holds exactly the other entities in input order, and a failed
\* entity is neither in the dataset nor in the image download pass.
C11_FailedEntityOmitted ==
  LET kept(s) == s \notin failed
      seen == SubSeq(SpeciesList, 1, si - 1)
  IN /\ fish_data_list = SelectSeq(seen, kept)
     /\ dataset.written => dataset.fish_database = SelectSeq(SpeciesList, kept)
     /\ \A i \in DOMAIN processed : processed[i] \notin failed
     /\ phase = "images" => CurrentFish \notin failed
     /\ \A p \in DOMAIN files : p[2] \notin failed

C11_Witness ==
  /\ phase = "done"
  /\ failed = {1}
  /\ dataset.written
  /\ dataset.fish_database = <<2>>
  /\ processed = <<2>>

\* C12: a missing or null metadata field is never an error: whatever subset
\* of Comments, LongevityWild, Length, Weight, FamCode and extract is absent
\* or null, extract_fish_data returns a record, and description, lifespan,
\* size and weight of a field that is absent or null come from the fallbacks.
C12_MissingFieldNeverError ==
  ex.done =>
    LET fb == ex.fishbase_data
        wk == ex.wikipedia_data
        fallback == IF ex.common_name \in DOMAIN fallback_descriptions
                    THEN fallback_descriptions[ex.common_name]
                    ELSE GenericDescription
    IN /\ ~ex.raised
       /\ (fb.Comments.state # "value" /\ wk.extract.state # "value") =>
             ex.record.description = fallback
       /\ fb.LongevityWild.state # "value" =>
             ex.record.lifespan = <<"5-15 years">>
       /\ fb.Length.state # "value" =>
             ex.record.size = <<"12-24 in (30-60 cm)">>
       /\ fb.Weight.state # "value" =>
             ex.record.weight = <<"2-10 lbs (1-4.5 kg)">>

\* C13: build_description takes the FishBase Comments when present,
\* otherwise the Wikipedia extract, otherwise the entry of the static table
\* for the common name, otherwise the generic string.
C13_DescriptionPriority ==
  (ex.done /\ ~ex.raised) =>
    LET fb == ex.fishbase_data
        wk == ex.wikipedia_data
        chosen ==
          IF fb.Comments.state = "value" THEN fb.Comments.value
          ELSE IF wk.extract.state = "value" THEN wk.extract.value
          ELSE IF ex.common_name \in DOMAIN fallback_descriptions
          THEN fallback_descriptions[ex.common_name]
          ELSE GenericDescription
    IN ex.record.description =
         IF Len(chosen) > MaxDescription
         THEN SubSeq(chosen, 1, MaxDescription) \o Ellipsis
         ELSE chosen

\* C14: a chosen description longer than 200 characters is returned as its
\* first 200 characters followed by "...", 203 characters in all; one of at
\* most 200 characters is returned unchanged.
C14_Truncation ==
  (ex.done /\ ~ex.raised) =>
    LET chosen == Descriptions(ex.common_name, ex.fishbase_data,
                               ex.wikipedia_data)[1].value
        d == ex.record.description
    IN IF Len(chosen) > MaxDescription
       THEN /\ Len(d) = MaxDescription + 3
            /\ \A i \in 1..MaxDescription : d[i] = chosen[i]
            /\ \A i \in 1..3 : d[MaxDescription + i][1] = "."
       ELSE d = chosen

C14_Witness ==
  /\ ex.done
  /\ ~ex.raised
  /\ ex.wikipedia_data.extract.state = "value"
  /\ Len(ex.wikipedia_data.extract.value) = MaxDescription + 1
  /\ Len(ex.record.description) = MaxDescription + 3
  /\ ex.record.description[MaxDescription] = <<"wikipedia", MaxDescription>>
  /\ ex.record.description[MaxDescription + 1] = <<".", 1>>

\* C15: generate_fish_id lowercases the name and replaces every space and
\* hyphen by '_', is idempotent, maps "Bluefin Tuna" to "bluefin_tuna", and
\* gives 20 pairwise distinct ids on the 20 names of get_top_20_fish_species.
C15_FishId ==
  /\ gid.n >= 1 =>
       /\ Len(gid.id) = Len(gid.name)
       /\ \A i \in 1..Len(gid.name) :
            IF gid.name[i] \in {" ", "-"} THEN gid.id[i] = "_"
            ELSE IF gid.name[i] = "A" THEN gid.id[i] = "a"
            ELSE IF gid.name[i] \in {"b", "_"} THEN gid.id[i] = gid.name[i]
            ELSE \A k \in 1..Len(UpperCase) : gid.id[i] # UpperCase[k]
       /\ gid.name = CommonNames[1] =>
            gid.id = <<"b", "l", "u", "e", "f", "i", "n", "_",
                       "t", "u", "n", "a">>
  /\ gid.n = 2 => gid.id_of_id = gid.id
  /\ gid.n >= 1 =>
       \A i, j \in DOMAIN CommonNames :
         (gid.name = CommonNames[i] /\ j # i) =>
            generate_fish_id(CommonNames[j]) # gid.id
  /\ Len(CommonNames) = 20

C15_Witness ==
  /\ gid.n = 2
  /\ gid.name = CommonNames[1]
  /\ gid.id_of_id = <<"b", "l", "u", "e", "f", "i", "n", "_",
                      "t", "u", "n", "a">>

\* C16: every record extract_fish_data produces carries, for each of the
\* four image categories, exactly the category's target count of image
\* paths: 2 natural, 1 scientific, 1 map, 2 sushi.
C16_RecordPathCounts ==
  (ex.done /\ ~ex.raised) =>
    \A c \in CatSet : Len(RecordPaths(ex.record, c)) = targets[c]

\* C17: two runs of download_free_images on the same entity list, from the
\* same image folders and with the same outcome for each request, invoke the
\* same adapters in the same order and end with the same files, real or
\* placeholder, at the same paths and the same counts per category; the
\* second run always finds the next recorded outcome waiting for it.
TapeNames == [i \in 1..Len(tape) |-> tape[i].name]
C18_ReplacementKept ==
  fx.step \in {"resize", "done"} =>
    \A i \in fx.success :
      /\ broken_images[i] \in DOMAIN fx.files
      /\ fx.files[broken_images[i]].origin = "replacement"

\* C19: resize_all_images leaves every file that is already 400x300
\* untouched: it is not opened for writing, not counted in total_resized,
\* and holds what it held; so in a second call right after a first,
\* total_resized stays 0 and every file stays as the first call left it.
C19_ResizeIdempotent ==
  fx.step \in {"resize", "done"} =>
    /\ \A p \in Range(fx.order) :
         fx.before[p].size = target_size =>
           /\ p \notin fx.written
           /\ p \notin fx.resized
           /\ fx.files[p] = fx.before[p]
    /\ fx.pass = 2 =>
         /\ fx.total_resized = 0
         /\ fx.resized = {}
         /\ fx.files = fx.before
C19_Witness ==
  /\ fx.pass = 2
  /\ fx.step = "done"
  /\ fx.first_total > 0
  /\ fx.errors # {}
  /\ \E p \in DOMAIN fx.files : p \notin fx.errors

\* C20: in resize_all_images a file that cannot be opened or saved is
\* passed over and the batch goes on: when the call returns every .jpg file
\* of the folders has been examined, every file that was not 400x300 and
\* raised no error is 400x300, and total_resized is the number of files
\* that were resized.
C20_ErrorsSkipped ==
  /\ fx.step # "aborted"
  /\ fx.step = "done" =>
       /\ Range(fx.order) = DOMAIN fx.before
       /\ fx.errors =
            {p \in DOMAIN fx.before :
               \/ ~fx.before[p].opens
               \/ fx.before[p].size # target_size /\ fx.before[p].mode = "LA"}
       /\ \A p \in DOMAIN fx.before \ fx.errors :
            fx.before[p].size # target_size =>
              /\ fx.files[p].opens
              /\ fx.files[p].size = target_size
       /\ fx.resized =
            {p \in DOMAIN fx.before \ fx.errors :
               fx.before[p].size # target_size}
       /\ fx.total_resized = Cardinality(fx.resized)
C20_Witness ==
  /\ fx.step = "done"
  /\ fx.pass = 1
  /\ \E i, j \in 1..Len(fx.order) :
       /\ i < j
       /\ fx.order[i] \in fx.errors
       /\ fx.order[j] \in fx.resized

\* C21: when run_fix_and_resize completes, every .jpg file of the four
\* folders opens as an image of exactly 400x300, the files that were
\* unreadable before the run included.
C21_AllUniformSize ==
  fx.step = "done" =>
    \A p \in DOMAIN fx.files :
      /\ fx.files[p].opens
      /\ fx.files[p].size = target_size

\* C22: the dataset written by generate_json_dataset holds the records of
\* the list it was given, in that order, total_species is the number of
\* records in fish_database, and nothing of a file that was at the path
\* before is in it.
C22_DatasetIsTheList ==
  phase = "done" =>
    /\ dataset.written
    /\ dataset.fish_database = fish_data_list
    /\ dataset.total_species = Len(dataset.fish_database)
C22_Witness ==
  /\ phase = "done"
  /\ dataset.replaced
  /\ Len(dataset.fish_database) = 2
  /\ dataset.fish_database[1] > dataset.fish_database[2]
  /\ dataset.fish_database # <<2, 1>>

\* C23: get_filename depends only on its arguments; within the target range
\* of a category two different indices give two different filenames; two
\* different categories give paths in two different folders; so the target
\* paths of one entity are as many as the targets add up to.
InTarget(call) ==
  call.image_type \in CatSet /\ call.index < targets[call.image_type]
C23_FilenameInjective ==
  fn.called =>
    /\ (fn.a.image_type = fn.b.image_type /\ fn.a.index = fn.b.index)
         => fn.a.path = fn.b.path
    /\ (InTarget(fn.a) /\ InTarget(fn.b)
        /\ fn.a.image_type = fn.b.image_type /\ fn.a.index # fn.b.index)
         => fn.a.path[3] # fn.b.path[3]
    /\ (InTarget(fn.a) /\ InTarget(fn.b)
        /\ fn.a.image_type # fn.b.image_type)
         => fn.a.path[1] # fn.b.path[1]
    /\ Cardinality(TargetPaths(fn.fish)) =
         targets.natural + targets.scientific + targets.maps + targets.sushi
C23_Witness ==
  /\ fn.called
  /\ fn.a.image_type = "sushi"
  /\ fn.b.image_type = "sushi"
  /\ fn.a.index = 0
  /\ fn.b.index = 1
  /\ fn.a.path # fn.b.path

\* C24: the list get_aliases returns has no element twice, and its elements
\* are exactly the romaji name and the alias-table entries of the common
\* name (the romaji name alone when the table has no entry), also when the
\* romaji name is one of the table entries.
TableEntries(common_name) ==
  CASE common_name = "Bluefin Tuna" -> {"Maguro", "Hon-maguro", "Kuro-maguro"}
    [] common_name = "Yellowfin Tuna" -> {"Ahi", "Kihada"}
    [] common_name = "Atlantic Salmon" -> {"Sake", "Norwegian Salmon"}
    [] common_name = "Japanese Amberjack" -> {"Hamachi", "Yellowtail", "Buri"}
    [] common_name = "Red Sea Bream" -> {"Tai", "Madai", "Sea Bream"}
    [] OTHER -> {}
C24_AliasesDeduplicated ==
  al.done =>
    /\ \A i, j \in 1..Len(al.aliases) :
         i # j => al.aliases[i] # al.aliases[j]
    /\ {al.aliases[k] : k \in 1..Len(al.aliases)} =
         {al.japanese_romaji} \cup TableEntries(al.common_name)
C24_Witness ==
  /\ al.done
  /\ al.common_name = "Bluefin Tuna"
  /\ al.japanese_romaji = "Maguro"
  /\ Len(al.aliases) = 3

\* C25: for every entity download_free_images goes through the four
\* pipelines once each in the order natural, scientific, maps, sushi, then
\* runs create_missing_placeholders, and only then turns to the next entity;
\* adapters are called by the pipeline that is running and placeholders are
\* generated only at the placeholder step.
C25_PipelinesInOrder ==
  [][/\ pc' # pc =>
          \/ /\ \E i \in 1..(Len(Cats) - 1) : pc = Cats[i] /\ pc' = Cats[i + 1]
             /\ fi' = fi
          \/ pc = Cats[Len(Cats)] /\ pc' = "placeholders" /\ fi' = fi
          \/ pc = "placeholders" /\ pc' = "delay" /\ fi' = fi
          \/ pc = "delay" /\ pc' = "natural" /\ fi' = fi + 1
     /\ fi' # fi => pc = "delay" /\ pc' = "natural"
     /\ (calls' # calls /\ calls' # <<>>) => pc \in CatSet /\ calls_cat' = pc
     /\ (ph_calls' # ph_calls /\ ph_calls' # {}) =>
          pc = "placeholders" /\ pc' = "delay"
    ]_vars
C25_Witness ==
  /\ phase = "images"
  /\ fi = 2
  /\ pc = "delay"
  /\ processed = <<1>>
  /\ ph_calls # {}

\* C26: within a pipeline run no counted save overwrites another, so when a
\* pipeline has returned a count of n, n different files of its category
\* hold a downloaded image.
RealFiles(cat) ==
  {p \in DOMAIN files : p[1] = get_image_folder(cat) /\ files[p] = "real"}
C26_CountedSavesDistinct ==
  (phase = "images" /\ pc \in CatSet \cup {"placeholders"}) =>
    \A cat \in CatSet : success_counts[cat] <= Cardinality(RealFiles(cat))

\* C27: in a pipeline, every adapter invocation that is followed by another
\* one is followed first by the fixed delay, whether it returned images,
\* returned zero or raised.
C27_DelayBetweenCalls ==
  \A i \in 1..(Len(calls) - 1) : calls[i].slept

\* The paths an entity record stores, and their agreement with the paths
\* the pipelines and the placeholder generator write to.
StoredPaths(fish) ==
  Range(get_image_paths(fish, "natural"))
    \cup Range(get_image_paths(fish, "sushi"))
    \cup {<<"maps", fish, <<"habitat">>>>}
StoredPathsAgree(fish) ==
  /\ \A c \in {"natural", "sushi"} : \A i \in 0..1 :
       get_image_paths(fish, c)[i + 1] = FilePath(fish, c, i)
  /\ <<"maps", fish, <<"habitat">>>> = FilePath(fish, "maps", 0)

\* C28: the paths an entity record stores are the paths the pipelines and
\* the placeholder generator write to (folder and get_filename for indices
\* 0 and 1 of natural and sushi, index 0 of maps), and once
\* download_free_images has processed the entity a file exists at each.
C28_StoredPathsExist ==
  FishDone =>
    /\ StoredPathsAgree(CurrentFish)
    /\ StoredPaths(CurrentFish) \subseteq DOMAIN files

\* C29: whenever download_image_from_url returns False the file at the
\* target path is what it was before the call: nothing is created,
\* truncated or partly overwritten.
C29_FailedDownloadKeepsFile ==
  (dl.called /\ ~dl.ret) =>
    /\ ~dl.opened
    /\ dl.after = dl.before
    /\ Read(files, dl.path) = dl.before

====
